---- MODULE Spec2Model ----
(***************************************************************************)
(* A model of src/PaperMC.ts: the PaperMC class, a typed client of the     *)
(* PaperMC v2 HTTP API built on one shared axios instance.                 *)
(*                                                                         *)
(* The state is the shared axios instance (its baseURL and the number of   *)
(* requests it was asked to send) and the calls of the PaperMC methods the *)
(* caller has made, each with its own position (pc), its locals, the       *)
(* requests it issued and the responses it received, and its promise's     *)
(* outcome.  The transport is the environment: it answers every request    *)
(* with a body of the endpoint's declared shape, or with a failure.        *)
(***************************************************************************)
EXTENDS Integers, Sequences, FiniteSets, TLC

\* ------------------------------------------------------------------ bounds
\* The longest array the transport puts in a response body.
MaxLen == 2

\* The calls the caller makes: two, so that any two operations can overlap.
CallIds == {1, 2}

Projects == {"paper", "velocity"}
Versions == {"1.19", "1.20"}
Families == {"1.20"}
Builds == {10, 17}
TransportErrors == {"ERR_BAD_RESPONSE", "ECONNREFUSED"}

\* All sequences over S of length at most n.
SeqsUpTo(S, n) == UNION {[1..k -> S] : k \in 0..n}

\* ------------------------------------------------------- JavaScript values
Undefined == [t |-> "undefined"]
Str(s) == [t |-> "string", s |-> s]
Num(n) == [t |-> "number", n |-> n]
Obj(o) == [t |-> "object", o |-> o]

Digits == <<"0", "1", "2", "3", "4", "5", "6", "7", "8", "9">>

\* Number.prototype.toString of a non-negative integer: its decimal digits.
RECURSIVE NumToString(_)
NumToString(n) ==
  IF n < 10 THEN Digits[n + 1]
  ELSE NumToString(n \div 10) \o Digits[(n % 10) + 1]

\* What a template literal substitutes for ${v}.
TemplateStr(v) ==
  CASE v.t = "string" -> v.s
    [] v.t = "number" -> NumToString(v.n)
    [] v.t = "undefined" -> "undefined"
    [] OTHER -> "[object Object]"

\* arr[arr.length - 1] of an array of strings: undefined when arr is empty.
\* LastString, were the first element taken for the last.
LastString_first(arr) == IF Len(arr) = 0 THEN Undefined ELSE Str(arr[1])
LastString(arr) == IF Len(arr) = 0 THEN Undefined ELSE Str(arr[Len(arr)])

\* arr[arr.length - 1] of an array of objects: undefined when arr is empty.
LastObject(arr) == IF Len(arr) = 0 THEN Undefined ELSE Obj(arr[Len(arr)])

\* ------------------------------------------------------ the axios instance
baseURLDefault == "https://api.papermc.io/v2"

\* paperAPIInstance.getUri() with no request config: the instance's baseURL.
getUri(base) == base

\* ------------------------------------------------------- request templates
ProjectsPath == "/projects"

ProjectPath(project) == "/projects/" \o TemplateStr(project)

VersionPath(project, version) ==
  "/projects/" \o TemplateStr(project) \o "/versions/" \o TemplateStr(version)

BuildsPath(project, version) ==
  "/projects/" \o TemplateStr(project) \o "/versions/" \o TemplateStr(version)
    \o "/builds"

BuildPath(project, version, build) ==
  "/projects/" \o TemplateStr(project) \o "/versions/" \o TemplateStr(version)
    \o "/builds/" \o TemplateStr(build)

\* VersionFamilyPath, were the family looked up under /versions/.
VersionFamilyPath_versions(project, family) ==
  "/projects/" \o TemplateStr(project) \o "/versions/" \o TemplateStr(family)
VersionFamilyPath(project, family) ==
  "/projects/" \o TemplateStr(project) \o "/version_group/" \o TemplateStr(family)

VersionFamilyBuildsPath(project, family) ==
  "/projects/" \o TemplateStr(project) \o "/version_group/" \o TemplateStr(family)
    \o "/builds"

\* DownloadURL, were the project left out of the file name.
DownloadURL_noProjectInFile(base, project, version, build) ==
  getUri(base) \o "/projects/" \o TemplateStr(project) \o "/versions/"
    \o TemplateStr(version) \o "/builds/" \o TemplateStr(build) \o "/downloads/"
    \o TemplateStr(version) \o "-" \o TemplateStr(build) \o ".jar"
DownloadURL(base, project, version, build) ==
  getUri(base) \o "/projects/" \o TemplateStr(project) \o "/versions/"
    \o TemplateStr(version) \o "/builds/" \o TemplateStr(build) \o "/downloads/"
    \o TemplateStr(project) \o "-" \o TemplateStr(version) \o "-"
    \o TemplateStr(build) \o ".jar"

\* ---------------------------------------------------- the transport's answers
Channels == {"default", "experimental"}

NoData == [none |-> TRUE]

\* A VersionBuild (lines 22-29), as the API would report build b.
VersionBuild(b) ==
  [build |-> b, time |-> "2023-06-12T10:00:00.000Z", channel |-> "default",
   promoted |-> FALSE, changes |-> <<>>,
   downloads |-> [application |-> [name |-> "app.jar", sha256 |-> "ab12"]]]

\* A VersionFamilyBuild (lines 31-39).
VersionFamilyBuild(v, b) ==
  [version |-> v, build |-> b, time |-> "2023-06-12T10:00:00.000Z",
   channel |-> "default", promoted |-> FALSE, changes |-> <<>>,
   downloads |-> [application |-> [name |-> "app.jar", sha256 |-> "ab12"]]]

ProjectsBodies == {[projects |-> ps] : ps \in SeqsUpTo(Projects, MaxLen)}

ProjectBodies(p) ==
  {[project_id |-> p, project_name |-> "Paper", version_groups |-> <<"1.20">>,
    versions |-> vs] : vs \in SeqsUpTo(Versions, MaxLen)}

VersionBodies(p, v) ==
  {[project_id |-> p, project_name |-> "Paper", version |-> v, builds |-> bs]
     : bs \in SeqsUpTo(Builds, MaxLen)}

BuildsBodies(p, v) ==
  {[project_id |-> p, project_name |-> "Paper", version |-> v, builds |-> bs]
     : bs \in SeqsUpTo({VersionBuild(b) : b \in Builds}, MaxLen)}

BuildBodies(p, v, b) ==
  {[project_id |-> p, project_name |-> "Paper", version |-> v, build |-> b,
    time |-> "2023-06-12T10:00:00.000Z", channel |-> ch, promoted |-> pr,
    changes |-> <<>>,
    downloads |-> [application |-> [name |-> "app.jar", sha256 |-> "ab12"]]]
     : ch \in Channels, pr \in BOOLEAN}

VersionFamilyBodies(p, f) ==
  {[project_id |-> p, project_name |-> "Paper", version_group |-> f,
    versions |-> vs] : vs \in SeqsUpTo(Versions, MaxLen)}

VersionFamilyBuildsBodies(p, f) ==
  {[project_id |-> p, project_name |-> "Paper", version_group |-> f,
    versions |-> <<f>>, builds |-> bs]
     : bs \in SeqsUpTo({VersionFamilyBuild(f, b) : b \in Builds}, MaxLen)}

\* What the transport may answer to a request whose 2xx bodies are `bodies`:
\* a response carrying one of them, or a failure (axios rejects the promise).
Responses(bodies) ==
  {[ok |-> TRUE, data |-> b, err |-> ""] : b \in bodies}
    \cup {[ok |-> FALSE, data |-> NoData, err |-> e] : e \in TransportErrors}

\* ------------------------------------------------------------------- state
VARIABLES
  baseURL,        \* paperAPIInstance.defaults.baseURL
  requestCount,   \* requests paperAPIInstance was asked to send
  calls           \* the calls of PaperMC's methods, by call id

vars == <<baseURL, requestCount, calls>>

Ops ==
  {"getProjects", "getProject", "getVersion", "getBuilds", "getBuild",
   "getDownloadURL", "getVersionFamily", "getVersionFamilyBuilds",
   "getLatestVersionDownloadURL"}

\* The operations that are one request and `return data`.
QueryOps ==
  {"getProjects", "getProject", "getVersion", "getBuilds", "getBuild",
   "getVersionFamily", "getVersionFamilyBuilds"}

ReqEvent(path) ==
  [kind |-> "request", method |-> "GET", url |-> path, ok |-> TRUE,
   data |-> NoData, err |-> ""]

RespEvent(r) ==
  [kind |-> "response", method |-> "", url |-> "", ok |-> r.ok,
   data |-> r.data, err |-> r.err]

\* A call id not used yet.
NoCall ==
  [op |-> "none", project |-> Undefined, version |-> Undefined,
   build |-> Undefined, family |-> Undefined, pc |-> "idle", versions |-> <<>>,
   log |-> <<>>, status |-> "none", data |-> NoData, url |-> "", error |-> ""]

\* The caller's calls are numbered in the order it makes them.
Fresh(c) ==
  /\ calls[c].op = "none"
  /\ \A d \in CallIds : d < c => calls[d].op # "none"

Init ==
  /\ baseURL = baseURLDefault
  /\ requestCount = 0
  /\ calls = [c \in CallIds |-> NoCall]

\* paperAPIInstance.get(path), awaited: the request is sent and the call suspends.
Get(c, op, project, version, build, family, path) ==
  /\ Fresh(c)
  /\ calls' = [calls EXCEPT ![c] =
       [NoCall EXCEPT !.op = op, !.project = project, !.version = version,
                      !.build = build, !.family = family, !.pc = "await",
                      !.log = <<ReqEvent(path)>>, !.status = "pending"]]
  /\ requestCount' = requestCount + 1
  /\ UNCHANGED baseURL

getProjects(c) ==
  Get(c, "getProjects", Undefined, Undefined, Undefined, Undefined, ProjectsPath)

getProject(c, project) ==
  Get(c, "getProject", Str(project), Undefined, Undefined, Undefined,
      ProjectPath(Str(project)))

getVersion(c, project, version) ==
  Get(c, "getVersion", Str(project), Str(version), Undefined, Undefined,
      VersionPath(Str(project), Str(version)))

getBuilds(c, project, version) ==
  Get(c, "getBuilds", Str(project), Str(version), Undefined, Undefined,
      BuildsPath(Str(project), Str(version)))

getBuild(c, project, version, build) ==
  Get(c, "getBuild", Str(project), Str(version), Num(build), Undefined,
      BuildPath(Str(project), Str(version), Num(build)))

getVersionFamily(c, project, family) ==
  Get(c, "getVersionFamily", Str(project), Undefined, Undefined, Str(family),
      VersionFamilyPath(Str(project), Str(family)))

getVersionFamilyBuilds(c, project, family) ==
  Get(c, "getVersionFamilyBuilds", Str(project), Undefined, Undefined,
      Str(family), VersionFamilyBuildsPath(Str(project), Str(family)))

\* getDownloadURL is synchronous: it returns the string and sends nothing.
getDownloadURL(c, project, version, build) ==
  /\ Fresh(c)
  /\ calls' = [calls EXCEPT ![c] =
       [NoCall EXCEPT !.op = "getDownloadURL", !.project = Str(project),
                      !.version = Str(version), !.build = Num(build),
                      !.pc = "done", !.status = "fulfilled",
                      !.url = DownloadURL(baseURL, Str(project), Str(version),
                                          Num(build))]]
  /\ UNCHANGED <<baseURL, requestCount>>

\* The 2xx bodies the transport may give to the request a query call awaits.
BodiesOf(call) ==
  CASE call.op = "getProjects" -> ProjectsBodies
    [] call.op = "getProject" -> ProjectBodies(call.project.s)
    [] call.op = "getVersion" -> VersionBodies(call.project.s, call.version.s)
    [] call.op = "getBuilds" -> BuildsBodies(call.project.s, call.version.s)
    [] call.op = "getBuild" ->
         BuildBodies(call.project.s, call.version.s, call.build.n)
    [] call.op = "getVersionFamily" ->
         VersionFamilyBodies(call.project.s, call.family.s)
    [] call.op = "getVersionFamilyBuilds" ->
         VersionFamilyBuildsBodies(call.project.s, call.family.s)

\* AwaitData, were the failure wrapped in a new error before it is rethrown.
AwaitData_wrapsError(call, r) ==
  IF r.ok
  THEN [call EXCEPT !.pc = "done", !.status = "fulfilled", !.data = r.data,
                    !.log = Append(@, RespEvent(r))]
  ELSE [call EXCEPT !.pc = "done", !.status = "rejected",
                    !.error = "Error", !.log = Append(@, RespEvent(r))]

\* AwaitData, were the response returned instead of its data.
AwaitData_returnsResponse(call, r) ==
  IF r.ok
  THEN [call EXCEPT !.pc = "done", !.status = "fulfilled", !.data = r,
                    !.log = Append(@, RespEvent(r))]
  ELSE [call EXCEPT !.pc = "done", !.status = "rejected", !.error = r.err,
                    !.log = Append(@, RespEvent(r))]

\* `const { data } = await paperAPIInstance.get(...); return data`, resumed by
\* the response r: the promise fulfils with r's body, or rejects with r's error.
AwaitData(call, r) ==
  IF r.ok
  THEN [call EXCEPT !.pc = "done", !.status = "fulfilled", !.data = r.data,
                    !.log = Append(@, RespEvent(r))]
  ELSE [call EXCEPT !.pc = "done", !.status = "rejected", !.error = r.err,
                    !.log = Append(@, RespEvent(r))]

\* The requests among the events of a log.
Requests(log) == SelectSeq(log, LAMBDA e : e.kind = "request")

\* The responses among the events of a log.
ResponsesIn(log) == SelectSeq(log, LAMBDA e : e.kind = "response")

\* A call resumes: its record becomes `new`; every request it adds is sent.
Resume(c, new) ==
  /\ calls' = [calls EXCEPT ![c] = new]
  /\ requestCount' =
       requestCount + Len(Requests(new.log)) - Len(Requests(calls[c].log))
  /\ UNCHANGED baseURL

\* The transport answers the request of a query call.
ReturnData(c) ==
  /\ calls[c].op \in QueryOps
  /\ calls[c].pc = "await"
  /\ \E r \in Responses(BodiesOf(calls[c])) : Resume(c, AwaitData(calls[c], r))

\* Line 200, up to the await: PaperMC.getProject(project) sends its request.
getLatestVersionDownloadURL(c, project) ==
  /\ Fresh(c)
  /\ calls' = [calls EXCEPT ![c] =
       [NoCall EXCEPT !.op = "getLatestVersionDownloadURL",
                      !.project = Str(project), !.pc = "awaitProject",
                      !.log = <<ReqEvent(ProjectPath(Str(project)))>>,
                      !.status = "pending"]]
  /\ requestCount' = requestCount + 1
  /\ UNCHANGED baseURL

\* LatestAfterProject, were a failed getProject treated as an empty version list.
LatestAfterProject_continues(call, r) ==
  LET versions == IF r.ok THEN r.data.versions ELSE <<>> IN
  [call EXCEPT
     !.pc = "awaitBuilds", !.versions = versions,
     !.log = @ \o <<RespEvent(r),
                    ReqEvent(BuildsPath(call.project, LastString(versions)))>>]

\* Lines 200-201: getProject settles with r; on success `versions` is bound
\* and PaperMC.getBuilds(project, versions[versions.length - 1]) sends its
\* request; on failure the await throws and the call rejects.
LatestAfterProject(call, r) ==
  IF r.ok
  THEN [call EXCEPT
          !.pc = "awaitBuilds", !.versions = r.data.versions,
          !.log = @ \o <<RespEvent(r),
                         ReqEvent(BuildsPath(call.project,
                                             LastString(r.data.versions)))>>]
  ELSE [call EXCEPT !.pc = "done", !.status = "rejected", !.error = r.err,
                    !.log = Append(@, RespEvent(r))]

\* LatestAfterBuilds, were the build read as builds[builds.length - 1]?.build.
LatestAfterBuilds_optionalChaining(base, call, r) ==
  IF r.ok
  THEN LET last == LastObject(r.data.builds) IN
       [call EXCEPT !.pc = "done", !.status = "fulfilled",
                    !.url = DownloadURL(base, call.project,
                                        LastString(call.versions),
                                        IF last.t = "undefined" THEN Undefined
                                        ELSE Num(last.o.build)),
                    !.log = Append(@, RespEvent(r))]
  ELSE [call EXCEPT !.pc = "done", !.status = "rejected", !.error = r.err,
                    !.log = Append(@, RespEvent(r))]

\* LatestAfterBuilds, were `versions` one variable of the module that every
\* call writes, so that a call may read what an earlier call stored.
LatestAfterBuilds_sharedVersions(base, call, r) ==
  IF r.ok
  THEN LET last == LastObject(r.data.builds) IN
       IF last.t = "undefined"
       THEN [call EXCEPT !.pc = "done", !.status = "rejected",
                         !.error = "TypeError",
                         !.log = Append(@, RespEvent(r))]
       ELSE [call EXCEPT !.pc = "done", !.status = "fulfilled",
                         !.url = DownloadURL(base, call.project,
                                             LastString(calls[1].versions),
                                             Num(last.o.build)),
                         !.log = Append(@, RespEvent(r))]
  ELSE [call EXCEPT !.pc = "done", !.status = "rejected", !.error = r.err,
                    !.log = Append(@, RespEvent(r))]

\* Lines 201-202: getBuilds settles with r; on success `builds` is bound and
\* builds[builds.length - 1].build is read (a TypeError when that element is
\* undefined), and the download URL is returned.
LatestAfterBuilds(base, call, r) ==
  IF r.ok
  THEN LET last == LastObject(r.data.builds) IN
       IF last.t = "undefined"
       THEN [call EXCEPT !.pc = "done", !.status = "rejected",
                         !.error = "TypeError",
                         !.log = Append(@, RespEvent(r))]
       ELSE [call EXCEPT !.pc = "done", !.status = "fulfilled",
                         !.url = DownloadURL(base, call.project,
                                             LastString(call.versions),
                                             Num(last.o.build)),
                         !.log = Append(@, RespEvent(r))]
  ELSE [call EXCEPT !.pc = "done", !.status = "rejected", !.error = r.err,
                    !.log = Append(@, RespEvent(r))]

\* The transport answers the getProject request of a latest-download call.
LatestProjectSettled(c) ==
  /\ calls[c].op = "getLatestVersionDownloadURL"
  /\ calls[c].pc = "awaitProject"
  /\ \E r \in Responses(ProjectBodies(calls[c].project.s)) :
       Resume(c, LatestAfterProject(calls[c], r))

\* The transport answers the getBuilds request of a latest-download call.
LatestBuildsSettled(c) ==
  /\ calls[c].op = "getLatestVersionDownloadURL"
  /\ calls[c].pc = "awaitBuilds"
  /\ \E r \in Responses(BuildsBodies(calls[c].project.s,
                                     TemplateStr(LastString(calls[c].versions)))) :
       Resume(c, LatestAfterBuilds(baseURL, calls[c], r))

Next ==
  \E c \in CallIds :
    \/ getProjects(c)
    \/ \E p \in Projects : getProject(c, p)
    \/ \E p \in Projects, v \in Versions : getVersion(c, p, v)
    \/ \E p \in Projects, v \in Versions : getBuilds(c, p, v)
    \/ \E p \in Projects, v \in Versions, b \in Builds : getBuild(c, p, v, b)
    \/ \E p \in Projects, v \in Versions, b \in Builds :
         getDownloadURL(c, p, v, b)
    \/ \E p \in Projects, f \in Families : getVersionFamily(c, p, f)
    \/ \E p \in Projects, f \in Families : getVersionFamilyBuilds(c, p, f)
    \/ \E p \in Projects : getLatestVersionDownloadURL(c, p)
    \/ ReturnData(c)
    \/ LatestProjectSettled(c)
    \/ LatestBuildsSettled(c)

Spec == Init /\ [][Next]_vars

TypeOK ==
  /\ requestCount \in Nat
  /\ \A c \in CallIds : calls[c].op \in Ops \cup {"none"}

\* ------------------------------------------------------------- properties
IsLatest(call) == call.op = "getLatestVersionDownloadURL"

\* The decimal text of the build numbers the caller uses.
BuildText(b) == CASE b = 10 -> "10" [] b = 17 -> "17"

\* A latest-download call both of whose requests were answered with a body.
BothAnswered(call) ==
  /\ IsLatest(call)
  /\ Len(call.log) = 4
  /\ call.log[2].ok
  /\ call.log[4].ok

\* C1: when the version list and the build list received are both non-empty,
\* getLatestVersionDownloadURL(p) returns exactly getDownloadURL(p, lastVersion,
\* lastBuild), lastVersion the last element of versions and lastBuild the build
\* of the last element of builds, by position and whatever their order; the
\* spec's scenario (1.19, 1.20; builds 10, 17) yields paper-1.20-17.jar.
C1_LatestIsDownloadURLOfLast ==
  \A c \in CallIds :
    LET call == calls[c] IN
    (/\ BothAnswered(call)
     /\ call.log[2].data.versions # <<>>
     /\ call.log[4].data.builds # <<>>)
    => LET vs == call.log[2].data.versions
           bs == call.log[4].data.builds
       IN /\ call.pc = "done"
          /\ call.status = "fulfilled"
          /\ call.url = DownloadURL(baseURLDefault, call.project,
                                    Str(vs[Len(vs)]), Num(bs[Len(bs)].build))
          /\ (/\ call.project.s = "paper"
              /\ vs = <<"1.19", "1.20">>
              /\ bs = <<VersionBuild(10), VersionBuild(17)>>)
             => call.url = "https://api.papermc.io/v2/projects/paper/versions/1.20/builds/17/downloads/paper-1.20-17.jar"

\* C1 witness: a call answered with descending lists returned the URL of the
\* elements in last position, not of the greatest ones.
C1_Witness ==
  \E c \in CallIds :
    /\ BothAnswered(calls[c])
    /\ calls[c].log[2].data.versions = <<"1.20", "1.19">>
    /\ calls[c].log[4].data.builds = <<VersionBuild(17), VersionBuild(10)>>
    /\ calls[c].url = "https://api.papermc.io/v2/projects/velocity/versions/1.19/builds/10/downloads/velocity-1.19-10.jar"

\* C2: when the version list received is empty, getLatestVersionDownloadURL
\* fails and returns no URL, whatever the transport answers to any later
\* request (the claim adds that the failure is the client's own; the formula
\* asks only that the call, once settled, has failed and holds no URL).
C2_EmptyVersionsFailsInClient ==
  \A c \in CallIds :
    LET call == calls[c] IN
    (/\ IsLatest(call)
     /\ Len(call.log) >= 2
     /\ call.log[2].ok
     /\ call.log[2].data.versions = <<>>)
    => /\ call.url = ""
       /\ call.pc = "done" => call.status = "rejected"

\* C3: when the version list is non-empty and the build list received is
\* empty, getLatestVersionDownloadURL fails and returns no URL.
C3_EmptyBuildsFails ==
  \A c \in CallIds :
    LET call == calls[c] IN
    (/\ BothAnswered(call)
     /\ call.log[2].data.versions # <<>>
     /\ call.log[4].data.builds = <<>>)
    => /\ call.pc = "done"
       /\ call.status = "rejected"
       /\ call.url = ""

\* C3 witness: such a call has settled.
C3_Witness ==
  \E c \in CallIds :
    /\ BothAnswered(calls[c])
    /\ calls[c].log[2].data.versions = <<"1.19", "1.20">>
    /\ calls[c].log[4].data.builds = <<>>
    /\ calls[c].status = "rejected"

\* C4: every getDownloadURL(project, version, build) returns
\* {baseURL}/projects/{project}/versions/{version}/builds/{build}/downloads/
\* {project}-{version}-{build}.jar with the identifiers verbatim, does not
\* fail, and leaves the transport's request count as it was.
C4_DownloadURLIsPureTemplate ==
  [][\A c \in CallIds :
       (calls[c].op = "none" /\ calls'[c].op = "getDownloadURL")
       => LET p == calls'[c].project.s
              v == calls'[c].version.s
              b == BuildText(calls'[c].build.n)
          IN /\ calls'[c].pc = "done"
             /\ calls'[c].status = "fulfilled"
             /\ calls'[c].url =
                  baseURL \o "/projects/" \o p \o "/versions/" \o v
                    \o "/builds/" \o b \o "/downloads/" \o p \o "-" \o v
                    \o "-" \o b \o ".jar"
             /\ calls'[c].log = <<>>
             /\ requestCount' = requestCount]_vars

\* C4 witness: a URL was built while a request of another call was counted.
C4_Witness ==
  /\ calls[1].op = "getProjects"
  /\ calls[2].op = "getDownloadURL"
  /\ calls[2].url = "https://api.papermc.io/v2/projects/paper/versions/1.20/builds/17/downloads/paper-1.20-17.jar"
  /\ requestCount = 1

\* The path the endpoint table lists for a query call.
ListedPath(call) ==
  CASE call.op = "getProjects" -> "/projects"
    [] call.op = "getProject" -> "/projects/" \o call.project.s
    [] call.op = "getVersion" ->
         "/projects/" \o call.project.s \o "/versions/" \o call.version.s
    [] call.op = "getBuilds" ->
         "/projects/" \o call.project.s \o "/versions/" \o call.version.s
           \o "/builds"
    [] call.op = "getBuild" ->
         "/projects/" \o call.project.s \o "/versions/" \o call.version.s
           \o "/builds/" \o BuildText(call.build.n)
    [] call.op = "getVersionFamily" ->
         "/projects/" \o call.project.s \o "/version_group/" \o call.family.s
    [] call.op = "getVersionFamilyBuilds" ->
         "/projects/" \o call.project.s \o "/version_group/" \o call.family.s
           \o "/builds"

\* The requests of the calls in S, counted.
RECURSIVE RequestsOf(_)
RequestsOf(S) ==
  IF S = {} THEN 0
  ELSE LET c == CHOOSE x \in S : TRUE
       IN Len(Requests(calls[c].log)) + RequestsOf(S \ {c})

\* C5: each query operation issues exactly one GET per invocation, to the path
\* the endpoint table lists for it with its inputs substituted.
C5_OneGetToTheListedPath ==
  /\ \A c \in CallIds :
       calls[c].op \in QueryOps
       => LET rs == Requests(calls[c].log)
          IN /\ Len(rs) = 1
             /\ rs[1].method = "GET"
             /\ rs[1].url = ListedPath(calls[c])
  /\ requestCount = RequestsOf(CallIds)

\* C5 witness: two query calls have settled, each after one request.
C5_Witness ==
  /\ calls[1].op = "getVersionFamily"
  /\ calls[1].pc = "done"
  /\ calls[1].log[1].url = "/projects/velocity/version_group/1.20"
  /\ calls[2].op = "getBuild"
  /\ calls[2].pc = "done"
  /\ calls[2].log[1].url = "/projects/paper/versions/1.19/builds/17"
  /\ requestCount = 2

\* Two calls of the same operation with the same inputs.
SameCall(a, b) ==
  /\ a.op = b.op
  /\ a.project = b.project
  /\ a.version = b.version
  /\ a.build = b.build
  /\ a.family = b.family

\* A call one of whose requests the transport failed.
TransportFailed(call) ==
  \E i \in 1..Len(call.log) :
    call.log[i].kind = "response" /\ ~call.log[i].ok

\* C6: when the transport fails a request, the operation fails with that
\* same failure value and issues no further request; a later identical call
\* issues its own request and returns that request's outcome.
C6_FailurePropagatesNoRetryNoCache ==
  \A c \in CallIds :
    LET call == calls[c] IN
    /\ \A i \in 1..Len(call.log) :
         (call.log[i].kind = "response" /\ ~call.log[i].ok)
         => /\ i = Len(call.log)
            /\ call.pc = "done"
            /\ call.status = "rejected"
            /\ call.error = call.log[i].err
            /\ call.data = NoData
            /\ call.url = ""
    /\ \A d \in CallIds :
         (/\ d > c
          /\ TransportFailed(call)
          /\ SameCall(call, calls[d]))
         => LET next == calls[d] IN
            /\ Len(next.log) >= 1
            /\ next.log[1].kind = "request"
            /\ next.pc = "done"
               => LET r == next.log[Len(next.log)] IN
                  /\ r.kind = "response"
                  /\ ~r.ok => next.status = "rejected" /\ next.error = r.err
                  /\ (r.ok /\ next.op \in QueryOps)
                     => next.status = "fulfilled" /\ next.data = r.data

\* C6 witness: getProject("paper") failed, and the same call made again was
\* answered and returned the answer.
C6_Witness ==
  /\ calls[1].op = "getProject"
  /\ calls[1].error = "ECONNREFUSED"
  /\ Len(calls[1].log) = 2
  /\ SameCall(calls[1], calls[2])
  /\ calls[2].status = "fulfilled"
  /\ calls[2].data.versions = <<"1.19", "1.20">>

\* C7: a successful getLatestVersionDownloadURL(p) issued exactly two
\* requests, GET /projects/{p} and then GET /projects/{p}/versions/
\* {lastVersion}/builds, the second after the first response and with the last
\* element of that response's versions as its version segment.
C7_LatestTwoRequestsInOrder ==
  \A c \in CallIds :
    LET call == calls[c] IN
    (IsLatest(call) /\ call.status = "fulfilled")
    => /\ Len(call.log) = 4
       /\ call.log[1].kind = "request"
       /\ call.log[1].method = "GET"
       /\ call.log[1].url = "/projects/" \o call.project.s
       /\ call.log[2].kind = "response"
       /\ call.log[2].ok
       /\ call.log[3].kind = "request"
       /\ call.log[3].method = "GET"
       /\ LET vs == call.log[2].data.versions
          IN /\ vs # <<>>
             /\ call.log[3].url =
                  "/projects/" \o call.project.s \o "/versions/"
                    \o vs[Len(vs)] \o "/builds"
       /\ call.log[4].kind = "response"

\* What a call's own inputs and the responses to its own requests determine:
\* its promise's status, data, url and error.
OwnOutcome(call) ==
  LET rs == ResponsesIn(call.log)
      pending == [status |-> "pending", data |-> NoData, url |-> "", error |-> ""]
      rejected(e) == [status |-> "rejected", data |-> NoData, url |-> "", error |-> e]
  IN CASE call.op = "none" ->
            [status |-> "none", data |-> NoData, url |-> "", error |-> ""]
       [] call.op = "getDownloadURL" ->
            [status |-> "fulfilled", data |-> NoData,
             url |-> baseURLDefault \o "/projects/" \o call.project.s
                       \o "/versions/" \o call.version.s \o "/builds/"
                       \o BuildText(call.build.n) \o "/downloads/"
                       \o call.project.s \o "-" \o call.version.s \o "-"
                       \o BuildText(call.build.n) \o ".jar",
             error |-> ""]
       [] call.op \in QueryOps ->
            IF Len(rs) = 0 THEN pending
            ELSE IF rs[1].ok
                 THEN [status |-> "fulfilled", data |-> rs[1].data, url |-> "",
                       error |-> ""]
                 ELSE rejected(rs[1].err)
       [] IsLatest(call) ->
            IF Len(rs) = 0 THEN pending
            ELSE IF ~rs[1].ok THEN rejected(rs[1].err)
            ELSE IF Len(rs) = 1 THEN pending
            ELSE IF ~rs[2].ok THEN rejected(rs[2].err)
            ELSE IF rs[2].data.builds = <<>> THEN rejected("TypeError")
            ELSE LET vs == rs[1].data.versions
                     bs == rs[2].data.builds
                     v == IF vs = <<>> THEN "undefined" ELSE vs[Len(vs)]
                     b == BuildText(bs[Len(bs)].build)
                 IN [status |-> "fulfilled", data |-> NoData,
                     url |-> baseURLDefault \o "/projects/" \o call.project.s
                               \o "/versions/" \o v \o "/builds/" \o b
                               \o "/downloads/" \o call.project.s \o "-" \o v
                               \o "-" \o b \o ".jar",
                     error |-> ""]

\* C8: under every interleaving of concurrent calls, each call's result is
\* determined by its own inputs and the responses to its own requests alone,
\* and no operation changes the base address.
C8_CallsAreIndependent ==
  /\ baseURL = baseURLDefault
  /\ \A c \in CallIds :
       [status |-> calls[c].status, data |-> calls[c].data,
        url |-> calls[c].url, error |-> calls[c].error] = OwnOutcome(calls[c])

\* C8 witness: two latest-download calls for different projects overlapped;
\* the later one has returned while the earlier one still awaits its builds,
\* with different version lists received.
C8_Witness ==
  /\ IsLatest(calls[1])
  /\ calls[1].project.s = "paper"
  /\ calls[1].pc = "awaitBuilds"
  /\ calls[1].versions = <<"1.19">>
  /\ IsLatest(calls[2])
  /\ calls[2].project.s = "velocity"
  /\ calls[2].url = "https://api.papermc.io/v2/projects/velocity/versions/1.20/builds/17/downloads/velocity-1.20-17.jar"

\* C9: for every successful response, a query operation returns the decoded
\* body unchanged: every field present and equal, none added or dropped.
C9_ReturnsBodyUnchanged ==
  \A c \in CallIds :
    LET call == calls[c] IN
    (/\ call.op \in QueryOps
     /\ Len(call.log) = 2
     /\ call.log[2].ok)
    => /\ call.pc = "done"
       /\ call.status = "fulfilled"
       /\ call.data = call.log[2].data
       /\ DOMAIN call.data = DOMAIN call.log[2].data
       /\ call.data \in BodiesOf(call)
       /\ call.error = ""

\* C9 witness: getBuilds returned the two builds the transport sent, in order.
C9_Witness ==
  \E c \in CallIds :
    /\ calls[c].op = "getBuilds"
    /\ calls[c].status = "fulfilled"
    /\ calls[c].data.builds = <<VersionBuild(17), VersionBuild(10)>>
    /\ calls[c].data.version = "1.19"

\* C10: in getLatestVersionDownloadURL, when the first request fails the
\* builds request is never issued and the call fails with that failure; when
\* the first succeeds and the second fails the call fails with the second's
\* failure; no URL is returned in either case.
C10_LatestPropagatesEitherFailure ==
  \A c \in CallIds :
    LET call == calls[c] IN
    IsLatest(call)
    => /\ (Len(call.log) >= 2 /\ ~call.log[2].ok)
          => /\ Len(call.log) = 2
             /\ Len(Requests(call.log)) = 1
             /\ call.pc = "done"
             /\ call.status = "rejected"
             /\ call.error = call.log[2].err
             /\ call.url = ""
       /\ (Len(call.log) = 4 /\ call.log[2].ok /\ ~call.log[4].ok)
          => /\ call.pc = "done"
             /\ call.status = "rejected"
             /\ call.error = call.log[4].err
             /\ call.url = ""

\* C10 witness: one call failed at its first request, another at its second.
C10_Witness ==
  /\ IsLatest(calls[1])
  /\ Len(calls[1].log) = 2
  /\ calls[1].error = "ECONNREFUSED"
  /\ IsLatest(calls[2])
  /\ Len(calls[2].log) = 4
  /\ calls[2].log[2].ok
  /\ calls[2].error = "ERR_BAD_RESPONSE"

====
